---- MODULE Spec2Model ----
(***************************************************************************)
(* Model of src/sai_handler.py: the SAILLM adapter between a chat          *)
(* completion framework and the SAI template execution API.                *)
(*                                                                         *)
(* Representation of Python values:                                        *)
(*   - a str is a sequence of tokens (each token stands for a run of      *)
(*     characters); "a in b" is sub-sequence search, lower() maps tokens;  *)
(*   - an Optional value is None == <<>> or Some(x) == <<x>>;              *)
(*   - a dict is a record or a function over its keys.                     *)
(***************************************************************************)
EXTENDS Integers, Sequences, FiniteSets, TLC

VARIABLES
    SAI_KEY,           \* module global, Optional str (line 47)
    SAI_COOKIE,        \* module global, Optional str (line 46)
    pc,                \* position of the request: idle, executor, http, done
    entry,             \* entry point that received the request
    messages,          \* caller's message list
    user_api_key,      \* Optional str returned by _extract_user_api_key
    args,              \* (system, user, chat_messages) handed to _call_sai
    data,              \* payload built by _call_sai
    branch,            \* branch of _execute_request_with_retry taken
    attempt,           \* number of _make_request invocations so far
    calls,             \* HTTP requests issued so far (headers and payload)
    answers,           \* what upstream did with each issued request (kind, status, body)
    reply,             \* the last upstream answer in full, Optional
    last,              \* (response, response_headers) of the last _make_request
    auth_method_used,  \* local of _execute_request_with_retry
    result,            \* Optional completion result handed to the caller
    raised,            \* exception propagated to the caller, or "none"
    call_kwargs,       \* credential resolution alone: the metadata bag, Optional
    cred,              \* credential resolution alone: what was resolved and sent
    raw,               \* normalization alone: the messages argument and clock readings
    norm,              \* normalization alone: outcome of _prepare_messages, Optional
    msg_content,       \* plugin unwrap alone: the message content, Optional
    unwrap_runs,       \* plugin unwrap alone: results of successive applications
    completed,         \* streaming alone: the completion awaited by astreaming
    stream_pc,         \* streaming alone: idle, streaming, closed
    chunks,            \* streaming alone: chunks yielded so far
    other              \* concurrent requests: the request that is not running, Optional

\* state of the request engine
engineVars == <<SAI_KEY, SAI_COOKIE, pc, entry, messages, user_api_key, args, data, branch,
                attempt, calls, answers, reply, last, auth_method_used, result, raised>>

\* state of the components when they are exercised on their own
auxVars == <<call_kwargs, cred, raw, norm, msg_content, unwrap_runs, completed, stream_pc, chunks,
             other>>

vars == <<SAI_KEY, SAI_COOKIE, pc, entry, messages, user_api_key, args, data, branch,
          attempt, calls, answers, reply, last, auth_method_used, result, raised,
          call_kwargs, cred, raw, norm, msg_content, unwrap_runs, completed, stream_pc, chunks,
          other>>

----------------------------------------------------------------------------
(* Bounds *)

\* longest caller message list
MaxMsgs == 2
\* largest clock reading (milliseconds after the first reading)
MaxTick == 1
MaxContentLen == 7
MaxTextLen == 101

----------------------------------------------------------------------------
(* Python values *)

None == <<>>
Some(x) == <<x>>
IsNone(o) == o = <<>>
Get(o) == o[1]

\* truthiness of an Optional str: None and "" are falsy
Truthy(o) == o # None /\ Get(o) # <<>>

\* "pat in s" for strings
Contains(s, pat) ==
    \E i \in 0..(Len(s) - Len(pat)) : SubSeq(s, i + 1, i + Len(pat)) = pat

\* str.lower(), token by token
LowerTok(t) ==
    CASE t = "Prompt Is Too Long" -> "prompt is too long"
      [] t = "OpenAICompatible" -> "openaicompatible"
      [] t = "Test template usage limit exceeded" -> "test template usage limit exceeded"
      [] t = "UNAUTHORIZED_ERROR" -> "unauthorized_error"
      [] t = "PROMPT_TOO_LONG" -> "prompt_too_long"
      [] t = "HTTP_500_ERROR" -> "http_500_error"
      [] t = "Raspberry" -> "raspberry"
      [] t = "RASPBERRY" -> "raspberry"
      [] t = "Cookies" -> "cookies"
      [] OTHER -> t

Lower(s) == [i \in 1..Len(s) |-> LowerTok(s[i])]

IsSpace(t) == t \in {" ", "\t"}

RECURSIVE LStrip(_)
LStrip(s) == IF s # <<>> /\ IsSpace(Head(s)) THEN LStrip(Tail(s)) ELSE s

RECURSIVE RStrip(_)
RStrip(s) ==
    IF s # <<>> /\ IsSpace(s[Len(s)]) THEN RStrip(SubSeq(s, 1, Len(s) - 1)) ELSE s

\* str.strip()
Strip(s) == RStrip(LStrip(s))

----------------------------------------------------------------------------
(* Texts that the code compares against *)

UNAUTHORIZED_ERROR == <<"UNAUTHORIZED_ERROR">>
PROMPT_TOO_LONG == <<"PROMPT_TOO_LONG">>
HTTP_500_ERROR == <<"HTTP_500_ERROR">>
RATE_LIMIT_MESSAGE == <<"Test template usage limit exceeded">>
plugin_prefix == <<"Determine if the following context is required to solve the task in the user's input in the chat session: ", "\"">>
plugin_suffix_start == <<"\"", "\nContext:">>

\* diagnostics returned by _handle_error_response / _build_auth_error_message
DiagAuthKey == <<"Error de Autenticacion (HTTP 401)", "La API Key proporcionada no es valida o ha expirado">>
DiagAuthCookie == <<"Error de Autenticacion (HTTP 401)", "La Cookie de sesion proporcionada no es valida o ha expirado">>
DiagAuthUnknown == <<"Error de Autenticacion (HTTP 401)", "Las credenciales de autenticacion proporcionadas no son validas o han expirado">>
DiagTooLong(n) == <<"Contexto demasiado largo", ToString(n), "mensajes">>
DiagHttp500 == <<"Error interno del servidor SAI (HTTP 500)">>
DiagNoResponse == <<"Error de conexion con SAI">>

----------------------------------------------------------------------------
(* Inputs *)

\* values of the environment variables SAI_KEY / SAI_COOKIE
KeyChoices == {None, Some(<<"syskey">>)}
CookieChoices == {None, Some(<<"syscookie">>)}

\* metadata bag: the two lookup locations of the caller-supplied value
KwargsChoices ==
    [litellm_params_metadata : {None, Some(<<"userkey">>), Some(<<"Cookies", "=abc">>),
                                Some(<<" ", "Raspberry">>)},
     headers : {None, Some(<<" ", "userkey">>)}]

Roles == {"system", "user"}
Contents == {<<"hello">>}
Msgs == [role : Roles, content : Contents]

RECURSIVE SeqsUpTo(_, _)
SeqsUpTo(S, n) ==
    IF n = 0 THEN {<<>>}
    ELSE LET shorter == SeqsUpTo(S, n - 1)
         IN shorter \cup {Append(q, x) : q \in {r \in shorter : Len(r) = n - 1}, x \in S}

MessageLists == SeqsUpTo(Msgs, MaxMsgs)

\* non-decreasing clock readings, one per converted message
ClockReads(n) ==
    {r \in [1..n -> 0..MaxTick] : \A i \in 1..n : \A j \in i..n : r[i] <= r[j]}

\* what upstream can do with a request
Statuses == {200, 401, 429, 500, 503}
Bodies == {<<>>, <<"hi there">>,
           <<"error: ", "Test template usage limit exceeded">>,
           <<"Prompt Is Too Long">>, <<"OpenAICompatible">>,
           UNAUTHORIZED_ERROR, PROMPT_TOO_LONG, HTTP_500_ERROR}
\* token headers: missing, non-numeric and numeric values
HeaderChoices ==
    {[prompttokens |-> None, completiontokens |-> Some("abc"), model |-> None],
     [prompttokens |-> Some("3"), completiontokens |-> Some("2"), model |-> Some("m1")]}

----------------------------------------------------------------------------
(* Credential Resolver *)

\* kwargs['litellm_params']['metadata'].get('user_api_key', ''), None when falsy
_extract_from_litellm_params(kwargs) ==
    LET user_api_key_ == IF kwargs.litellm_params_metadata = None THEN <<>>
                         ELSE Get(kwargs.litellm_params_metadata)
    IN IF user_api_key_ # <<>> THEN Some(user_api_key_) ELSE None

\* kwargs['headers'].get('user_api_key', ''), None when falsy
_extract_from_headers(kwargs) ==
    LET user_api_key_ == IF kwargs.headers = None THEN <<>> ELSE Get(kwargs.headers)
    IN IF user_api_key_ # <<>> THEN Some(user_api_key_) ELSE None

_is_valid_api_key_exact(api_key) ==
    IF api_key = <<>> THEN FALSE
    ELSE LET trimmed == Strip(api_key)
         IN IF trimmed = <<>> \/ trimmed = <<"raspberry">> THEN FALSE ELSE TRUE

_is_valid_api_key(api_key) ==
    IF api_key = <<>> THEN FALSE
    ELSE LET trimmed == Strip(api_key)
         IN IF trimmed = <<>> \/ Lower(trimmed) = <<"raspberry">> THEN FALSE ELSE TRUE

_extract_user_api_key_nextvalid(kwargs) ==
    LET first == _extract_from_litellm_params(kwargs)
        found == IF ~Truthy(first) \/ ~_is_valid_api_key(Get(first))
                 THEN _extract_from_headers(kwargs) ELSE first
    IN IF ~Truthy(found) THEN None
       ELSE IF ~_is_valid_api_key(Get(found)) THEN None
       ELSE Some(Strip(Get(found)))

\* returns the trimmed caller value, or None
_extract_user_api_key(kwargs) ==
    LET first == _extract_from_litellm_params(kwargs)
        found == IF ~Truthy(first) THEN _extract_from_headers(kwargs) ELSE first
    IN IF ~Truthy(found) THEN None
       ELSE IF ~_is_valid_api_key(Get(found)) THEN None
       ELSE Some(Strip(Get(found)))

_determine_auth_method_nocookie(uak) ==
    [custom_cookie |-> None, api_key_to_use |-> IF Truthy(uak) THEN uak ELSE SAI_KEY]

_determine_auth_method_nodefault(uak) ==
    IF Truthy(uak) /\ Contains(Get(uak), <<"Cookies">>)
    THEN [custom_cookie |-> uak, api_key_to_use |-> None]
    ELSE [custom_cookie |-> None, api_key_to_use |-> uak]

_determine_auth_method_shared(uak) ==
    IF Truthy(uak) /\ Contains(Get(uak), <<"Cookies">>)
    THEN [custom_cookie |-> uak, api_key_to_use |-> None]
    ELSE IF other # None /\ Get(other).attempt >= 2
    THEN [custom_cookie |-> None, api_key_to_use |-> None]
    ELSE [custom_cookie |-> None,
          api_key_to_use |-> IF Truthy(uak) THEN uak ELSE SAI_KEY]

\* returns (custom_cookie, api_key_to_use)
_determine_auth_method(uak) ==
    IF Truthy(uak) /\ Contains(Get(uak), <<"Cookies">>)
    THEN [custom_cookie |-> uak, api_key_to_use |-> None]
    ELSE [custom_cookie |-> None,
          api_key_to_use |-> IF Truthy(uak) THEN uak ELSE SAI_KEY]

----------------------------------------------------------------------------
(* Message Normalizer *)

\* str.find(pat, start): zero-based index of the first occurrence at or after
\* start, -1 when there is none
Find(s, pat, start) ==
    LET hits == {i \in start..(Len(s) - Len(pat)) : SubSeq(s, i + 1, i + Len(pat)) = pat}
    IN IF hits = {} THEN 0 - 1 ELSE CHOOSE i \in hits : \A j \in hits : i <= j

StartsWith(s, pat) == Len(s) >= Len(pat) /\ SubSeq(s, 1, Len(pat)) = pat

_extract_plugin_wrapped_message_noend(content) ==
    IF StartsWith(content, plugin_prefix) /\ Contains(content, plugin_suffix_start)
    THEN LET start_idx == Len(plugin_prefix)
             end_idx == Find(content, plugin_suffix_start, start_idx)
         IN IF end_idx > start_idx
            THEN [is_plugin_msg |-> TRUE, content |-> SubSeq(content, start_idx + 1, Len(content))]
            ELSE [is_plugin_msg |-> FALSE, content |-> content]
    ELSE [is_plugin_msg |-> FALSE, content |-> content]

\* returns (is_plugin_msg, content)
_extract_plugin_wrapped_message(content) ==
    IF StartsWith(content, plugin_prefix) /\ Contains(content, plugin_suffix_start)
    THEN LET start_idx == Len(plugin_prefix)
             end_idx == Find(content, plugin_suffix_start, start_idx)
         IN IF end_idx > start_idx
            THEN [is_plugin_msg |-> TRUE, content |-> SubSeq(content, start_idx + 1, end_idx)]
            ELSE [is_plugin_msg |-> FALSE, content |-> content]
    ELSE [is_plugin_msg |-> FALSE, content |-> content]

\* the message list after the in-place replacement of wrapped contents
_process_plugin_messages(msgs) ==
    [i \in 1..Len(msgs) |->
        [msgs[i] EXCEPT !.content = _extract_plugin_wrapped_message(msgs[i].content).content]]

_convert_to_sai_format_noidx(msgs, reads) ==
    [i \in 1..Len(msgs) |->
        [content |-> msgs[i].content, role |-> msgs[i].role, id |-> reads[i]]]

\* reads[i] is the clock reading (ms) taken for the i-th element
_convert_to_sai_format(msgs, reads) ==
    [i \in 1..Len(msgs) |->
        [content |-> msgs[i].content, role |-> msgs[i].role, id |-> reads[i] + (i - 1)]]

_prepare_messages_nosystem(msgs, reads) ==
    LET unwrapped == _process_plugin_messages(msgs)
        isSystem == unwrapped[1].role = "system"
        processed_messages == SelectSeq(unwrapped, LAMBDA m : m.role # "system")
    IN [messages |-> unwrapped,
        system_prompt |-> IF isSystem THEN unwrapped[1].content ELSE <<>>,
        chat_messages |-> _convert_to_sai_format(processed_messages, reads)]

\* returns the mutated list, the system prompt and the upstream chat messages
_prepare_messages(msgs, reads) ==
    LET unwrapped == _process_plugin_messages(msgs)
        isSystem == unwrapped[1].role = "system"
        processed_messages == IF isSystem THEN Tail(unwrapped) ELSE unwrapped
    IN [messages |-> unwrapped,
        system_prompt |-> IF isSystem THEN unwrapped[1].content ELSE <<>>,
        chat_messages |-> _convert_to_sai_format(processed_messages, reads)]

\* number of elements _prepare_messages hands to _convert_to_sai_format
ProcessedLen(msgs) ==
    IF msgs # <<>> /\ msgs[1].role = "system" THEN Len(msgs) - 1 ELSE Len(msgs)

----------------------------------------------------------------------------
(* Upstream Request Engine: one HTTP attempt *)

_setup_request_headers_nodefaultcookie(use_api_key, custom_api_key, custom_cookie) ==
    IF use_api_key /\ (Truthy(custom_api_key) \/ Truthy(SAI_KEY))
    THEN Some([X_Api_Key |-> IF Truthy(custom_api_key) THEN custom_api_key ELSE SAI_KEY,
               Cookie |-> None])
    ELSE IF Truthy(custom_cookie)
    THEN Some([X_Api_Key |-> None, Cookie |-> custom_cookie])
    ELSE None

_setup_request_headers_both(use_api_key, custom_api_key, custom_cookie) ==
    IF use_api_key /\ (Truthy(custom_api_key) \/ Truthy(SAI_KEY))
    THEN Some([X_Api_Key |-> IF Truthy(custom_api_key) THEN custom_api_key ELSE SAI_KEY,
               Cookie |-> IF Truthy(custom_cookie) THEN custom_cookie ELSE SAI_COOKIE])
    ELSE IF Truthy(custom_cookie)
    THEN Some([X_Api_Key |-> None, Cookie |-> custom_cookie])
    ELSE IF Truthy(SAI_COOKIE)
    THEN Some([X_Api_Key |-> None, Cookie |-> SAI_COOKIE])
    ELSE None

\* Optional headers: None is the "no authentication method" return (None, None)
_setup_request_headers(use_api_key, custom_api_key, custom_cookie) ==
    IF use_api_key /\ (Truthy(custom_api_key) \/ Truthy(SAI_KEY))
    THEN Some([X_Api_Key |-> IF Truthy(custom_api_key) THEN custom_api_key ELSE SAI_KEY,
               Cookie |-> None])
    ELSE IF Truthy(custom_cookie)
    THEN Some([X_Api_Key |-> None, Cookie |-> custom_cookie])
    ELSE IF Truthy(SAI_COOKIE)
    THEN Some([X_Api_Key |-> None, Cookie |-> SAI_COOKIE])
    ELSE None

\* int(resp.headers.get(name, 0)) with ValueError/TypeError folded into 0
IntOfHeader(h) ==
    IF h = None THEN 0
    ELSE CASE Get(h) = "0" -> 0
           [] Get(h) = "1" -> 1
           [] Get(h) = "2" -> 2
           [] Get(h) = "3" -> 3
           [] OTHER -> 0

_extract_response_headers(resp) ==
    [prompt_tokens |-> IntOfHeader(resp.headers.prompttokens),
     completion_tokens |-> IntOfHeader(resp.headers.completiontokens),
     model |-> IF resp.headers.model = None THEN "unknown" ELSE Get(resp.headers.model),
     status_code |-> resp.status]

\* http_session.post followed by resp.raise_for_status(): either the response
\* object is returned or a requests exception leaves the function
_execute_http_request(ans) ==
    IF ans.kind = "timeout" THEN [raises |-> TRUE, e |-> [type |-> "Timeout"]]
    ELSE IF ans.kind = "connection" THEN [raises |-> TRUE, e |-> [type |-> "ConnectionError"]]
    ELSE IF ans.status >= 400 /\ ans.status < 600
    THEN [raises |-> TRUE, e |-> [type |-> "HTTPError"]]
    ELSE [raises |-> FALSE, resp |-> ans]

\* bool(resp) for an Optional requests.Response: None is falsy, a Response is
\* truthy exactly when it is ok (status below 400)
RespTruthy(resp) == resp # None /\ Get(resp).status < 400

_handle_http_401_error(resp) ==
    [response |-> Some(UNAUTHORIZED_ERROR), response_headers |-> None]

_handle_http_429_error(resp) ==
    LET response_text == IF RespTruthy(resp) THEN Get(resp).body ELSE <<>>
    IN IF Contains(response_text, RATE_LIMIT_MESSAGE)
       THEN [response |-> None, response_headers |-> None]
       ELSE [response |-> None, response_headers |-> None]

_handle_http_500_error(resp) ==
    LET response_text == IF RespTruthy(resp) THEN Get(resp).body ELSE <<>>
    IN IF \/ Contains(Lower(response_text), <<"prompt is too long">>)
          \/ Contains(Lower(response_text), <<"openaicompatible">>)
       THEN [response |-> Some(PROMPT_TOO_LONG), response_headers |-> None]
       ELSE [response |-> Some(HTTP_500_ERROR), response_headers |-> None]

_handle_other_http_errors_unhandled(resp) ==
    [response |-> Some(<<"HTTP_ERROR">>), response_headers |-> None]

_handle_other_http_errors(resp) ==
    [response |-> None, response_headers |-> None]

\* e is the exception caught, resp the local variable of _make_request
_handle_request_exceptions(e, resp) ==
    IF e.type = "HTTPError"
    THEN IF resp # None /\ Get(resp).status = 401 THEN _handle_http_401_error(resp)
         ELSE IF resp # None /\ Get(resp).status = 429 THEN _handle_http_429_error(resp)
         ELSE IF resp # None /\ Get(resp).status = 500 THEN _handle_http_500_error(resp)
         ELSE _handle_other_http_errors(resp)
    ELSE IF e.type = "Timeout" THEN [response |-> None, response_headers |-> None]
    ELSE [response |-> None, response_headers |-> None]

\* the part of _make_request after the headers are built: resp starts as None
\* and is assigned only when _execute_http_request returns; when it raises,
\* the except clause sees resp still None
_make_request(ans) ==
    LET http == _execute_http_request(ans)
    IN IF http.raises
       THEN _handle_request_exceptions(http.e, None)
       ELSE [response |-> Some(http.resp.body),
             response_headers |-> Some(_extract_response_headers(http.resp))]

----------------------------------------------------------------------------
(* Upstream Request Engine: retry policy *)

\* the first _make_request of _execute_request_with_retry and the
\* auth_method_used that goes with it
FirstAttemptPlan(custom_cookie, api_key_to_use, uak) ==
    IF Truthy(custom_cookie)
    THEN [branch |-> "custom_cookie", use_api_key |-> FALSE, custom_api_key |-> None,
          custom_cookie |-> custom_cookie,
          auth_method_used |-> <<"Cookie", " personalizada del usuario">>]
    ELSE IF Truthy(api_key_to_use)
    THEN [branch |-> "api_key", use_api_key |-> TRUE, custom_api_key |-> api_key_to_use,
          custom_cookie |-> None,
          auth_method_used |->
              <<"API Key", " (",
                IF Truthy(uak) THEN "personalizada del usuario" ELSE "del sistema (SAI_KEY)",
                ")">>]
    ELSE [branch |-> "sys_cookie", use_api_key |-> FALSE, custom_api_key |-> None,
          custom_cookie |-> None,
          auth_method_used |-> <<"Cookie", " (unica opcion disponible)">>]

FallbackAuthMethodUsed == <<"Cookie", " (fallback desde ", "API Key", ")">>

FallbackDecision_synconly(br, position, response) ==
    IF br = "api_key" /\ position = 1 /\ entry = "completion"
    THEN IF response = Some(UNAUTHORIZED_ERROR) THEN "return"
         ELSE IF response = None /\ Truthy(SAI_COOKIE) THEN "fallback"
         ELSE "return"
    ELSE "return"

FallbackDecision_anybranch(br, position, response) ==
    IF position = 1
    THEN IF response = Some(UNAUTHORIZED_ERROR) THEN "return"
         ELSE IF response = None /\ Truthy(SAI_COOKIE) THEN "fallback"
         ELSE "return"
    ELSE "return"

FallbackDecision_again(br, position, response) ==
    IF br = "api_key" /\ response # Some(UNAUTHORIZED_ERROR)
          /\ response = None /\ Truthy(SAI_COOKIE)
    THEN "fallback" ELSE "return"

\* what _execute_request_with_retry does once the _make_request at the given
\* position (1 = first, 2 = fallback) has returned
FallbackDecision(br, position, response) ==
    IF br = "api_key" /\ position = 1
    THEN IF response = Some(UNAUTHORIZED_ERROR) THEN "return"
         ELSE IF response = None /\ Truthy(SAI_COOKIE) THEN "fallback"
         ELSE "return"
    ELSE "return"

----------------------------------------------------------------------------
(* Response Translator *)

ZeroUsage ==
    [prompt_tokens |-> 0, completion_tokens |-> 0, total_tokens |-> 0, model |-> "unknown"]

_build_auth_error_message(amu) ==
    IF Contains(amu, <<"API Key">>) THEN DiagAuthKey
    ELSE IF Contains(amu, <<"Cookie">>) THEN DiagAuthCookie
    ELSE DiagAuthUnknown

_handle_error_response_timeout(response, amu, chat_messages) ==
    IF response = None
    THEN Some([text |-> DiagNoResponse, finish_reason |-> "timeout", usage_data |-> ZeroUsage])
    ELSE None

\* Optional (error_message, finish_reason, usage_data)
_handle_error_response(response, amu, chat_messages) ==
    IF response = Some(UNAUTHORIZED_ERROR)
    THEN Some([text |-> _build_auth_error_message(amu), finish_reason |-> "error",
               usage_data |-> ZeroUsage])
    ELSE IF response = Some(PROMPT_TOO_LONG)
    THEN Some([text |-> DiagTooLong(Len(chat_messages)), finish_reason |-> "length",
               usage_data |-> ZeroUsage])
    ELSE IF response = Some(HTTP_500_ERROR)
    THEN Some([text |-> DiagHttp500, finish_reason |-> "error", usage_data |-> ZeroUsage])
    ELSE IF response = None
    THEN Some([text |-> DiagNoResponse, finish_reason |-> "error", usage_data |-> ZeroUsage])
    ELSE None

_update_usage_data_nototal(response_headers) ==
    IF response_headers # None
    THEN [prompt_tokens |-> Get(response_headers).prompt_tokens,
          completion_tokens |-> Get(response_headers).completion_tokens,
          total_tokens |-> 0,
          model |-> Get(response_headers).model]
    ELSE [prompt_tokens |-> 0, completion_tokens |-> 0, total_tokens |-> 0, model |-> "unknown"]

_update_usage_data(response_headers) ==
    IF response_headers # None
    THEN [prompt_tokens |-> Get(response_headers).prompt_tokens,
          completion_tokens |-> Get(response_headers).completion_tokens,
          total_tokens |-> Get(response_headers).prompt_tokens
                           + Get(response_headers).completion_tokens,
          model |-> Get(response_headers).model]
    ELSE ZeroUsage

CallSaiResult_usage_first(response, response_headers, amu, chat_messages) ==
    LET error_result == _handle_error_response(response, amu, chat_messages)
        usage_data == _update_usage_data(response_headers)
    IN IF error_result # None
       THEN [Get(error_result) EXCEPT !.usage_data = usage_data]
       ELSE [text |-> Get(response), finish_reason |-> "stop", usage_data |-> usage_data]

\* the return value of _call_sai once _execute_request_with_retry has returned
CallSaiResult(response, response_headers, amu, chat_messages) ==
    LET error_result == _handle_error_response(response, amu, chat_messages)
    IN IF error_result # None THEN Get(error_result)
       ELSE [text |-> Get(response), finish_reason |-> "stop",
             usage_data |-> _update_usage_data(response_headers)]

\* the ModelResponse built by completion / acompletion
ModelResponse(r) ==
    [text |-> r.text,
     finish_reason |-> r.finish_reason,
     usage |-> [prompt_tokens |-> r.usage_data.prompt_tokens,
                completion_tokens |-> r.usage_data.completion_tokens,
                total_tokens |-> r.usage_data.total_tokens],
     model |-> r.usage_data.model]

----------------------------------------------------------------------------
(* State machine of one request *)

\* the components exercised on their own are not in use
AuxIdle ==
    /\ call_kwargs = None
    /\ cred = None
    /\ raw = None
    /\ norm = None
    /\ msg_content = None
    /\ unwrap_runs = <<>>
    /\ other = None
    /\ completed = None
    /\ stream_pc = "idle"
    /\ chunks = <<>>

\* startup: the module raises ValueError unless SAI_KEY or SAI_COOKIE is set
EngineInit ==
    /\ SAI_KEY \in KeyChoices
    /\ SAI_COOKIE \in CookieChoices
    /\ ~(~Truthy(SAI_KEY) /\ ~Truthy(SAI_COOKIE))
    /\ pc = "idle"
    /\ entry = "none"
    /\ messages = <<>>
    /\ user_api_key = None
    /\ args = None
    /\ data = None
    /\ branch = "none"
    /\ attempt = 0
    /\ calls = <<>>
    /\ answers = <<>>
    /\ reply = None
    /\ last = None
    /\ auth_method_used = None
    /\ result = None
    /\ raised = "none"

Init == EngineInit /\ AuxIdle

\* _call_sai returns: the entry point wraps the tuple into a ModelResponse
Finish(n, response, response_headers, amu, chat_messages) ==
    /\ pc' = "done"
    /\ attempt' = n
    /\ last' = Some([response |-> response, response_headers |-> response_headers])
    /\ auth_method_used' = Some(amu)
    /\ result' = Some(ModelResponse(CallSaiResult(response, response_headers, amu, chat_messages)))
    /\ UNCHANGED <<calls, raised>>

\* http_session.post is issued with the given headers; the worker blocks
Send(n, headers, d, amu) ==
    /\ pc' = "http"
    /\ attempt' = n
    /\ calls' = Append(calls, [headers |-> headers, data |-> d])
    /\ auth_method_used' = Some(amu)
    /\ UNCHANGED <<last, result, raised>>

\* the fallback _make_request(use_api_key=False) of line 568
FallbackAttempt(n, d, chat_messages) ==
    LET hr == _setup_request_headers(FALSE, None, None)
    IN IF hr = None
       THEN Finish(n, None, None, FallbackAuthMethodUsed, chat_messages)
       ELSE Send(n, Get(hr), d, FallbackAuthMethodUsed)

\* _execute_request_with_retry resumes after the _make_request at position n
AfterAttempt(n, br, response, response_headers, amu, d, chat_messages) ==
    IF FallbackDecision(br, n, response) = "fallback"
    THEN FallbackAttempt(n + 1, d, chat_messages)
    ELSE Finish(n, response, response_headers, amu, chat_messages)

CallSai_race(a, uak) ==
    LET d == [inputs |-> [system |-> a.system, user |-> a.user],
              chatMessages |-> IF a.chat_messages # <<>> THEN Some(a.chat_messages) ELSE None]
        auth == _determine_auth_method(uak)
        plan == FirstAttemptPlan(auth.custom_cookie, auth.api_key_to_use, uak)
        hr == _setup_request_headers(plan.use_api_key, plan.custom_api_key, plan.custom_cookie)
        fb == _setup_request_headers(FALSE, None, None)
    IN /\ data' = Some(d)
       /\ branch' = plan.branch
       /\ pc' = "http"
       /\ attempt' = 1
       /\ calls' = (IF hr = None THEN <<>> ELSE <<[headers |-> Get(hr), data |-> d]>>)
                   \o (IF plan.branch = "api_key" /\ fb # None
                       THEN <<[headers |-> Get(fb), data |-> d]>> ELSE <<>>)
       /\ auth_method_used' = Some(plan.auth_method_used)
       /\ UNCHANGED <<last, result, raised>>

\* _call_sai up to the first http_session.post
CallSai(a, uak) ==
    LET d == [inputs |-> [system |-> a.system, user |-> a.user],
              chatMessages |-> IF a.chat_messages # <<>> THEN Some(a.chat_messages) ELSE None]
        auth == _determine_auth_method(uak)
        plan == FirstAttemptPlan(auth.custom_cookie, auth.api_key_to_use, uak)
        hr == _setup_request_headers(plan.use_api_key, plan.custom_api_key, plan.custom_cookie)
    IN /\ data' = Some(d)
       /\ branch' = plan.branch
       /\ IF hr = None
          THEN AfterAttempt(1, plan.branch, None, None, plan.auth_method_used, d, a.chat_messages)
          ELSE Send(1, Get(hr), d, plan.auth_method_used)

Prepared_firstprompt(msgs, kwargs, reads) ==
    LET pm == _prepare_messages(msgs, reads)
    IN [messages |-> pm.messages,
        user_api_key |-> _extract_user_api_key(kwargs),
        args |-> [system |-> pm.system_prompt,
                  user |-> pm.messages[1].content,
                  chat_messages |-> pm.chat_messages]]

\* the common prefix of completion and acompletion: credential extraction and
\* message normalization
Prepared(msgs, kwargs, reads) ==
    LET pm == _prepare_messages(msgs, reads)
    IN [messages |-> pm.messages,
        user_api_key |-> _extract_user_api_key(kwargs),
        args |-> [system |-> pm.system_prompt,
                  user |-> pm.messages[Len(pm.messages)].content,
                  chat_messages |-> pm.chat_messages]]

completion ==
    /\ pc = "idle"
    /\ \E msgs \in MessageLists, kwargs \in KwargsChoices :
        /\ entry' = "completion"
        /\ IF msgs = <<>>
           THEN /\ raised' = "ValueError"
                /\ pc' = "done"
                /\ messages' = msgs
                /\ UNCHANGED <<user_api_key, args, data, branch, attempt, calls, last,
                               auth_method_used, result>>
           ELSE \E reads \in ClockReads(ProcessedLen(msgs)) :
                LET p == Prepared(msgs, kwargs, reads)
                IN /\ messages' = p.messages
                   /\ user_api_key' = p.user_api_key
                   /\ args' = Some(p.args)
                   /\ CallSai(p.args, p.user_api_key)
    /\ UNCHANGED <<SAI_KEY, SAI_COOKIE, answers, reply>>
    /\ UNCHANGED auxVars

acompletion ==
    /\ pc = "idle"
    /\ \E msgs \in MessageLists, kwargs \in KwargsChoices :
        /\ entry' = "acompletion"
        /\ IF msgs = <<>>
           THEN /\ raised' = "ValueError"
                /\ pc' = "done"
                /\ messages' = msgs
                /\ UNCHANGED <<user_api_key, args>>
           ELSE \E reads \in ClockReads(ProcessedLen(msgs)) :
                LET p == Prepared(msgs, kwargs, reads)
                IN /\ messages' = p.messages
                   /\ user_api_key' = p.user_api_key
                   /\ args' = Some(p.args)
                   /\ pc' = "executor"
                   /\ UNCHANGED raised
    /\ UNCHANGED <<SAI_KEY, SAI_COOKIE, data, branch, attempt, calls, answers, reply, last,
                   auth_method_used, result>>
    /\ UNCHANGED auxVars

\* loop.run_in_executor: a worker thread runs _call_sai
run_in_executor ==
    /\ pc = "executor"
    /\ CallSai(Get(args), user_api_key)
    /\ UNCHANGED <<SAI_KEY, SAI_COOKIE, entry, messages, user_api_key, args, answers, reply>>
    /\ UNCHANGED auxVars

\* the in-flight _make_request returns and the request runs on to its next
\* http_session.post or to its result
Answered(ans) ==
    LET r == _make_request(ans)
        chat_messages == Get(args).chat_messages
    IN /\ answers' = Append(answers, [kind |-> ans.kind, status |-> ans.status, body |-> ans.body])
       /\ reply' = Some(ans)
       /\ AfterAttempt(attempt, branch, r.response, r.response_headers,
                       Get(auth_method_used), Get(data), chat_messages)
       /\ UNCHANGED <<SAI_KEY, SAI_COOKIE, entry, messages, user_api_key, args, data, branch>>
       /\ UNCHANGED auxVars

NoHeaders == [prompttokens |-> None, completiontokens |-> None, model |-> None]

\* upstream answers with a status line, headers and a body
HttpResponse ==
    /\ pc = "http"
    /\ \E st \in Statuses, body \in Bodies, hs \in HeaderChoices :
        Answered([kind |-> "response", status |-> st, body |-> body, headers |-> hs])

\* requests.Timeout
HttpTimeout ==
    /\ pc = "http"
    /\ Answered([kind |-> "timeout", status |-> 0, body |-> <<>>, headers |-> NoHeaders])

\* any other requests.RequestException (connection refused, DNS failure)
HttpConnectionError ==
    /\ pc = "http"
    /\ Answered([kind |-> "connection", status |-> 0, body |-> <<>>, headers |-> NoHeaders])

Next ==
    \/ completion
    \/ acompletion
    \/ run_in_executor
    \/ HttpResponse
    \/ HttpTimeout
    \/ HttpConnectionError

Spec == Init /\ [][Next]_vars

----------------------------------------------------------------------------
(* Observations used by the properties *)

\* the i-th HTTP request carried the X-Api-Key header / the Cookie header
SentKey(i) == calls[i].headers.X_Api_Key # None
SentCookie(i) == calls[i].headers.Cookie # None

\* the i-th HTTP request has been answered with the given status
AnsweredStatus(i, st) ==
    Len(answers) >= i /\ answers[i].kind = "response" /\ answers[i].status = st

\* the i-th answer is a 429 whose body contains the rate-limit message
RateLimitAnswer(i) ==
    AnsweredStatus(i, 429) /\ Contains(answers[i].body, RATE_LIMIT_MESSAGE)

\* the i-th answer is a 2xx
SuccessAnswer(i) ==
    Len(answers) >= i /\ answers[i].kind = "response"
        /\ answers[i].status >= 200 /\ answers[i].status < 300

\* the request has returned a completion result to its caller
Returned == pc = "done" /\ result # None

\* the body of a 500 announces an oversized context
TooLongBody(body) ==
    \/ Contains(Lower(body), <<"prompt is too long">>)
    \/ Contains(Lower(body), <<"openaicompatible">>)

----------------------------------------------------------------------------
(* Properties *)

\* C1: every outbound HTTP request, first attempt or fallback, carries exactly
\* one auth header: X-Api-Key or Cookie, never both and never neither.
C1_ExactlyOneAuthHeader ==
    \A i \in 1..Len(calls) :
        /\ SentKey(i) \/ SentCookie(i)
        /\ ~(SentKey(i) /\ SentCookie(i))
        /\ SentKey(i) => Truthy(calls[i].headers.X_Api_Key)
        /\ SentCookie(i) => Truthy(calls[i].headers.Cookie)

\* a caller-supplied key was sent first and the default Cookie on the fallback,
\* with both defaults configured
C1_Witness ==
    /\ Len(calls) = 2
    /\ Truthy(SAI_KEY) /\ Truthy(SAI_COOKIE) /\ Truthy(user_api_key)
    /\ calls[1].headers.X_Api_Key = user_api_key
    /\ calls[2].headers.Cookie = SAI_COOKIE

\* C2: when the first attempt uses a Key credential and upstream answers 401,
\* no second HTTP call is issued for the request, even with a default Cookie
\* configured, and the outcome is Unauthorized.
C2_KeyUnauthorizedIsTerminal ==
    (Len(calls) >= 1 /\ SentKey(1) /\ AnsweredStatus(1, 401)) =>
        /\ Len(calls) = 1
        /\ pc = "done"
        /\ result # None
        /\ Get(result).finish_reason = "error"
        /\ Get(result).text = DiagAuthKey

\* C3: a Key attempt answered 429 with the rate-limit message is followed by
\* exactly one fallback attempt carrying the default Cookie when one is
\* configured, and by no further attempt when none is configured.
C3_RateLimitFallback ==
    (Len(calls) >= 1 /\ SentKey(1) /\ RateLimitAnswer(1)) =>
        IF Truthy(SAI_COOKIE)
        THEN /\ Len(calls) = 2
             /\ calls[2].headers = [X_Api_Key |-> None, Cookie |-> SAI_COOKIE]
             /\ calls[2].data = calls[1].data
        ELSE /\ Len(calls) = 1
             /\ pc = "done"

\* the fallback has been issued after a rate-limited Key attempt and answered
C3_Witness ==
    /\ Len(answers) = 2
    /\ SentKey(1) /\ RateLimitAnswer(1)
    /\ calls[2].headers.Cookie = SAI_COOKIE
    /\ pc = "done"

\* C4: only a 429 carrying the rate-limit message triggers the fallback: a Key
\* attempt that ends in any other failure (429 with another body, 500, another
\* non-2xx status, timeout, connection failure) is terminal, one call in total.
C4_OnlyRateLimitFallsBack ==
    (Len(calls) >= 1 /\ SentKey(1) /\ Len(answers) >= 1 /\ ~RateLimitAnswer(1)) =>
        /\ Len(calls) = 1
        /\ pc = "done"

\* C5: a request issues at most two HTTP calls; once the fallback has been
\* answered the request returns, whatever the answer was.
C5_AtMostTwoCalls ==
    /\ Len(calls) <= 2
    /\ attempt <= 2
    /\ Len(answers) = 2 => pc = "done"

\* the Cookie fallback itself was answered 429 with the rate-limit message
C5_Witness ==
    /\ Len(answers) = 2
    /\ SentKey(1) /\ SentCookie(2)
    /\ RateLimitAnswer(2)
    /\ pc = "done"

\* C6: for a non-empty valid message list and any upstream behaviour, both
\* entry points return a completion result whose finish_reason is stop,
\* length or error, and raise nothing.
C6_AlwaysACompletion ==
    /\ messages # <<>> => raised = "none"
    /\ (pc = "done" /\ messages # <<>>) =>
          /\ result # None
          /\ Get(result).finish_reason \in {"stop", "length", "error"}

\* acompletion returned an error completion after the fallback timed out
C6_Witness ==
    /\ Returned
    /\ entry = "acompletion"
    /\ Len(answers) = 2
    /\ answers[1].kind = "connection"
    /\ answers[2].kind = "timeout"
    /\ Get(result).finish_reason = "error"
    /\ raised = "none"

\* C7: when the last HTTP attempt returns 2xx the result is stop and its text
\* is the upstream body verbatim, whatever the body is.
C7_SuccessBodyVerbatim ==
    (Returned /\ SuccessAnswer(Len(calls))) =>
        /\ Get(result).finish_reason = "stop"
        /\ Get(result).text = answers[Len(calls)].body

\* C8: a 500 is reported as length with the context-too-long diagnostic
\* exactly when its body contains "prompt is too long" or "openaicompatible"
\* in any letter case; any other 500 is reported as error with the
\* server-error diagnostic.
C8_Http500Classification ==
    (Returned /\ Len(calls) >= 1 /\ AnsweredStatus(Len(calls), 500)) =>
        IF TooLongBody(answers[Len(calls)].body)
        THEN /\ Get(result).finish_reason = "length"
             /\ Get(result).text = DiagTooLong(Len(Get(args).chat_messages))
        ELSE /\ Get(result).finish_reason = "error"
             /\ Get(result).text = DiagHttp500

\* C9: an Unauthorized outcome is reported as error with a diagnostic naming
\* the credential kind of the attempt that received the 401: the API Key when
\* that attempt sent X-Api-Key, the Cookie when it sent a Cookie header.
C9_UnauthorizedNamesCredential ==
    (/\ Returned
     /\ Len(calls) >= 1
     /\ \/ AnsweredStatus(Len(calls), 401)
        \/ Get(last).response = Some(UNAUTHORIZED_ERROR)) =>
        /\ Get(result).finish_reason = "error"
        /\ Get(result).text = IF SentKey(Len(calls)) THEN DiagAuthKey ELSE DiagAuthCookie

\* C10: after a Key attempt followed by a Cookie fallback exactly two calls
\* were issued, and a 2xx answer to the Cookie attempt yields stop with that
\* answer's body and token headers.
C10_FallbackResultIsCookieOutcome ==
    (Returned /\ Len(calls) >= 2 /\ SentKey(1) /\ SentCookie(2)) =>
        /\ Len(calls) = 2
        /\ SuccessAnswer(2) =>
              /\ Get(result).finish_reason = "stop"
              /\ Get(result).text = Get(reply).body
              /\ Get(result).usage.prompt_tokens = IntOfHeader(Get(reply).headers.prompttokens)
              /\ Get(result).usage.completion_tokens
                     = IntOfHeader(Get(reply).headers.completiontokens)

\* C11: whenever the result's finish_reason is error or length, its usage is
\* all-zero and its model is "unknown", whatever token headers any attempt of
\* the request carried.
C11_FailureUsageIsZero ==
    (Returned /\ Get(result).finish_reason \in {"error", "length"}) =>
        /\ Get(result).usage = [prompt_tokens |-> 0, completion_tokens |-> 0, total_tokens |-> 0]
        /\ Get(result).model = "unknown"

\* a failed request whose last answer carried token headers and a model header
C11_Witness ==
    /\ Returned
    /\ Get(result).finish_reason = "error"
    /\ Len(answers) = 2
    /\ Get(reply).headers.prompttokens = Some("3")
    /\ Get(reply).headers.model = Some("m1")

\* the number a token header stands for: 0 when missing or non-numeric
ExpectedTokens(h) ==
    CASE h = Some("3") -> 3
      [] h = Some("2") -> 2
      [] OTHER -> 0

\* C12: on Success prompt_tokens and completion_tokens are the prompttokens and
\* completiontokens response headers (0 when missing or non-numeric) and
\* total_tokens is their sum; headers 3 and 2 yield total 5.
C12_SuccessUsageFromHeaders ==
    (Returned /\ Get(result).finish_reason = "stop") =>
        LET h == Get(reply).headers
            u == Get(result).usage
        IN /\ u.prompt_tokens = ExpectedTokens(h.prompttokens)
           /\ u.completion_tokens = ExpectedTokens(h.completiontokens)
           /\ u.total_tokens = u.prompt_tokens + u.completion_tokens
           /\ (h.prompttokens = Some("3") /\ h.completiontokens = Some("2")) => u.total_tokens = 5

\* the scenario of the specification: 200 "hi there" with headers 3 and 2
C12_Witness ==
    /\ Returned
    /\ Get(result).text = <<"hi there">>
    /\ Get(result).usage = [prompt_tokens |-> 3, completion_tokens |-> 2, total_tokens |-> 5]

\* C13: an accepted caller value containing "Cookies" is sent only in the
\* Cookie header, never in X-Api-Key; any other accepted caller value is sent
\* only as X-Api-Key, on the first attempt.
C13_CallerValueClassification ==
    (attempt >= 1 /\ Truthy(user_api_key)) =>
        /\ Len(calls) >= 1
        /\ IF Contains(Get(user_api_key), <<"Cookies">>)
           THEN \A i \in 1..Len(calls) :
                    calls[i].headers = [X_Api_Key |-> None, Cookie |-> user_api_key]
           ELSE /\ calls[1].headers = [X_Api_Key |-> user_api_key, Cookie |-> None]
                /\ \A i \in 1..Len(calls) :
                     /\ calls[i].headers.Cookie # user_api_key
                     /\ i > 1 => calls[i].headers.X_Api_Key # user_api_key

\* a caller value containing "Cookies" was sent as the Cookie of the only call
\* although a default Key is configured
C13_Witness ==
    /\ Returned
    /\ Truthy(SAI_KEY)
    /\ Truthy(user_api_key) /\ Contains(Get(user_api_key), <<"Cookies">>)
    /\ Len(calls) = 1
    /\ calls[1].headers.Cookie = user_api_key

\* C15: when no caller value survives validation the first attempt uses the
\* default Key if one is configured, even next to a default Cookie, and the
\* default Cookie only when no default Key is configured.
C15_DefaultCredentialOrder ==
    (attempt >= 1 /\ ~Truthy(user_api_key)) =>
        /\ Len(calls) >= 1
        /\ calls[1].headers = IF Truthy(SAI_KEY)
                              THEN [X_Api_Key |-> SAI_KEY, Cookie |-> None]
                              ELSE [X_Api_Key |-> None, Cookie |-> SAI_COOKIE]

\* both defaults configured, no caller value: the first call carried the Key
C15_Witness ==
    /\ attempt >= 1
    /\ user_api_key = None
    /\ Truthy(SAI_KEY) /\ Truthy(SAI_COOKIE)
    /\ calls[1].headers.X_Api_Key = SAI_KEY

----------------------------------------------------------------------------
(* Credential resolution on its own: the metadata bag of one call, the      *)
(* credential resolved from it and the auth headers of the attempts.        *)

\* values of the two lookup locations: missing, empty, blank, the placeholder
\* in several spellings, and accepted values
MetadataValues ==
    {None, Some(<<>>), Some(<<" ">>), Some(<<"raspberry">>),
     Some(<<" ", "RASPBERRY", "\t">>), Some(<<"Raspberry">>),
     Some(<<"raspberry", "pi">>), Some(<<"userkey">>), Some(<<"Cookies", "=abc">>)}
HeaderValues == {None, Some(<<"hdrkey">>), Some(<<"raspberry", " ">>)}

AuthInit ==
    /\ EngineInit
    /\ call_kwargs \in {Some(k) : k \in [litellm_params_metadata : MetadataValues,
                                         headers : HeaderValues]}
    /\ cred = None
    /\ raw = None
    /\ norm = None
    /\ msg_content = None
    /\ unwrap_runs = <<>>
    /\ other = None
    /\ completed = None
    /\ stream_pc = "idle"
    /\ chunks = <<>>

\* completion extracts the caller value, _call_sai determines the auth method
\* and the first _make_request builds its headers
ResolveCredential ==
    /\ call_kwargs # None
    /\ cred = None
    /\ LET uak == _extract_user_api_key(Get(call_kwargs))
           auth == _determine_auth_method(uak)
           plan == FirstAttemptPlan(auth.custom_cookie, auth.api_key_to_use, uak)
           hr == _setup_request_headers(plan.use_api_key, plan.custom_api_key,
                                        plan.custom_cookie)
       IN cred' = Some([user_api_key |-> uak, branch |-> plan.branch,
                        sent |-> IF hr = None THEN <<>> ELSE <<Get(hr)>>,
                        returned |-> FALSE])
    /\ UNCHANGED <<engineVars, other, call_kwargs, raw, norm, msg_content, unwrap_runs,
                   completed, stream_pc, chunks>>

\* the first _make_request returns None: _execute_request_with_retry builds
\* the headers of the fallback, or returns
FirstAttemptFails ==
    /\ cred # None
    /\ ~Get(cred).returned
    /\ LET c == Get(cred)
           hr == _setup_request_headers(FALSE, None, None)
       IN cred' = Some([c EXCEPT
                    !.returned = TRUE,
                    !.sent = IF FallbackDecision(c.branch, 1, None) = "fallback" /\ hr # None
                             THEN Append(c.sent, Get(hr)) ELSE c.sent])
    /\ UNCHANGED <<engineVars, other, call_kwargs, raw, norm, msg_content, unwrap_runs,
                   completed, stream_pc, chunks>>

AuthNext == ResolveCredential \/ FirstAttemptFails

SpecAuth == AuthInit /\ [][AuthNext]_vars

\* the caller-supplied value: the first lookup location when it holds a
\* non-empty value, else the second
SuppliedValue ==
    LET k == Get(call_kwargs)
    IN IF k.litellm_params_metadata # None /\ Get(k.litellm_params_metadata) # <<>>
       THEN k.litellm_params_metadata
       ELSE k.headers

\* empty after trimming, or the placeholder in any letter case
IsPlaceholderOrBlank(v) ==
    \/ \A i \in 1..Len(v) : v[i] \in {" ", "\t"}
    \/ \E i \in 1..Len(v) :
          /\ v[i] \in {"raspberry", "Raspberry", "RASPBERRY"}
          /\ \A j \in 1..Len(v) : j # i => v[j] \in {" ", "\t"}

\* the auth headers of a request made without any caller value
DefaultFirstHeaders ==
    IF Truthy(SAI_KEY) THEN [X_Api_Key |-> SAI_KEY, Cookie |-> None]
    ELSE [X_Api_Key |-> None, Cookie |-> SAI_COOKIE]

\* C14: a caller value that is empty after trimming or is "raspberry" in any
\* letter case with any surrounding whitespace resolves to absent: the request
\* authenticates as if no value had been supplied and the rejected value is
\* never sent upstream.
C14_RejectedValueIsAbsent ==
    (cred # None /\ SuppliedValue # None /\ IsPlaceholderOrBlank(Get(SuppliedValue))) =>
        LET c == Get(cred)
        IN /\ c.user_api_key = None
           /\ Len(c.sent) >= 1
           /\ c.sent[1] = DefaultFirstHeaders
           /\ Len(c.sent) = 2 => c.sent[2] = [X_Api_Key |-> None, Cookie |-> SAI_COOKIE]
           /\ c.returned =>
                 Len(c.sent) = IF Truthy(SAI_KEY) /\ Truthy(SAI_COOKIE) THEN 2 ELSE 1
           /\ \A i \in 1..Len(c.sent) :
                 /\ c.sent[i].X_Api_Key \notin {SuppliedValue, Some(Strip(Get(SuppliedValue)))}
                 /\ c.sent[i].Cookie \notin {SuppliedValue, Some(Strip(Get(SuppliedValue)))}

\* " RASPBERRY " was supplied with both defaults configured: the default Key,
\* then the default Cookie, were sent
C14_Witness ==
    /\ cred # None
    /\ Get(call_kwargs).litellm_params_metadata = Some(<<" ", "RASPBERRY", "\t">>)
    /\ Get(cred).returned
    /\ Len(Get(cred).sent) = 2
    /\ Get(cred).sent[1].X_Api_Key = SAI_KEY

----------------------------------------------------------------------------
(* Message normalization on its own: the messages argument of one call, as  *)
(* the caller may pass it, and what completion does with it up to _call_sai *)

WrappedHello == plugin_prefix \o <<"hello">> \o plugin_suffix_start \o <<" file.py">>
NormContents == {<<"hello">>, WrappedHello}

\* an element of the messages argument: a dict with or without the two keys,
\* or something that is not a dict (a str, a number, None)
ValidElems == {[isdict |-> TRUE, role |-> Some(r), content |-> Some(c)] :
                  r \in Roles, c \in NormContents}
InvalidElems ==
    {[isdict |-> FALSE, role |-> None, content |-> None],
     [isdict |-> TRUE, role |-> None, content |-> Some(<<"hello">>)],
     [isdict |-> TRUE, role |-> Some("user"), content |-> None]}
NormElems == ValidElems \cup InvalidElems

\* the messages argument: None, a non-empty str, or a list; reads are the
\* clock readings the conversion would take
RawMessages ==
    {[kind |-> "none", items |-> <<>>, reads |-> <<>>],
     [kind |-> "str", items |-> <<>>, reads |-> <<>>]}
    \cup UNION {{[kind |-> "list", items |-> q, reads |-> r] : r \in ClockReads(Len(q))} :
                   q \in SeqsUpTo(NormElems, MaxMsgs)}

NormInit ==
    /\ EngineInit
    /\ raw \in {Some(x) : x \in RawMessages}
    /\ norm = None
    /\ call_kwargs = None
    /\ cred = None
    /\ msg_content = None
    /\ unwrap_runs = <<>>
    /\ other = None
    /\ completed = None
    /\ stream_pc = "idle"
    /\ chunks = <<>>

\* bool(messages): None and the empty list are falsy
MessagesTruthy(r) == r.kind = "str" \/ (r.kind = "list" /\ r.items # <<>>)

\* the in-place replacement of _process_plugin_messages on arbitrary elements
ProcessPluginItems(items) ==
    [i \in 1..Len(items) |->
        IF items[i].isdict /\ items[i].content # None
        THEN [items[i] EXCEPT
                 !.content = Some(_extract_plugin_wrapped_message(Get(items[i].content)).content)]
        ELSE items[i]]

\* msg.get on each element: an element that is not a dict has no get
_log_message_statistics(items) ==
    IF \E i \in 1..Len(items) : ~items[i].isdict THEN "AttributeError" ELSE "none"

_validate_message_structure(items) ==
    IF \E i \in 1..Len(items) :
          ~items[i].isdict \/ items[i].role = None \/ items[i].content = None
    THEN "ValueError" ELSE "none"

\* the exception that leaves completion before _call_sai, or "none"
NormRaises(r) ==
    IF ~MessagesTruthy(r) THEN "ValueError"
    ELSE IF r.kind # "list" THEN "ValueError"
    ELSE IF _log_message_statistics(ProcessPluginItems(r.items)) # "none"
    THEN _log_message_statistics(ProcessPluginItems(r.items))
    ELSE _validate_message_structure(ProcessPluginItems(r.items))

ItemsAsMsgs(items) ==
    [i \in 1..Len(items) |-> [role |-> Get(items[i].role), content |-> Get(items[i].content)]]

\* completion up to its call of _call_sai
Normalize ==
    /\ raw # None
    /\ norm = None
    /\ LET r == Get(raw)
           exc == NormRaises(r)
       IN norm' = Some(
            IF exc # "none"
            THEN [raised |-> exc,
                  messages |-> IF MessagesTruthy(r) /\ r.kind = "list"
                               THEN ProcessPluginItems(r.items) ELSE r.items,
                  system_prompt |-> <<>>, chat_messages |-> <<>>, calls_sai |-> FALSE]
            ELSE LET pm == _prepare_messages(ItemsAsMsgs(r.items), r.reads)
                 IN [raised |-> "none",
                     messages |-> ProcessPluginItems(r.items),
                     system_prompt |-> pm.system_prompt,
                     chat_messages |-> pm.chat_messages, calls_sai |-> TRUE])
    /\ UNCHANGED <<engineVars, other, call_kwargs, cred, raw, msg_content, unwrap_runs,
                   completed, stream_pc, chunks>>

NormNext == Normalize

SpecNorm == NormInit /\ [][NormNext]_vars

\* a non-empty list whose elements all have role and content
ValidRaw == Get(raw).kind = "list" /\ Get(raw).items # <<>>
            /\ \A i \in 1..Len(Get(raw).items) : Get(raw).items[i] \in ValidElems

\* the content an element is forwarded with
ForwardedContent(e) == IF Get(e.content) = WrappedHello THEN <<"hello">> ELSE Get(e.content)

\* C16: for every non-empty list of messages that each have role and content,
\* normalization does not raise; when the first message has role system its
\* content is the system prompt and the remaining messages are the upstream
\* list; otherwise the system prompt is empty and the upstream list has the
\* input length; a system message at a later position is forwarded.
C16_NormalizeValidLists ==
    (norm # None /\ ValidRaw) =>
        LET items == Get(raw).items
            n == Get(norm)
            off == IF items[1].role = Some("system") THEN 1 ELSE 0
        IN /\ n.raised = "none"
           /\ n.system_prompt = IF off = 1 THEN ForwardedContent(items[1]) ELSE <<>>
           /\ Len(n.chat_messages) = Len(items) - off
           /\ \A i \in 1..Len(n.chat_messages) :
                 /\ n.chat_messages[i].role = Get(items[i + off].role)
                 /\ n.chat_messages[i].content = ForwardedContent(items[i + off])

\* a list of two system messages was normalized: the second was forwarded
C16_Witness ==
    /\ norm # None /\ ValidRaw
    /\ Len(Get(raw).items) = 2
    /\ Get(raw).items[1].role = Some("system")
    /\ Get(raw).items[2].role = Some("system")
    /\ Len(Get(norm).chat_messages) = 1
    /\ Get(norm).chat_messages[1].role = "system"

\* C17: a messages argument that is empty, is not a list, or has an element
\* that is not a role/content mapping fails with ValueError, and the request
\* does not reach the upstream call.
C17_InvalidInputIsValueError ==
    (norm # None /\ ~ValidRaw) =>
        (Get(norm).raised = "ValueError" /\ ~Get(norm).calls_sai)

\* C19: the ids of the upstream chat messages of one request are strictly
\* increasing with position, whatever non-decreasing clock readings the
\* conversion takes.
C19_IdsStrictlyIncreasing ==
    (norm # None /\ Get(norm).raised = "none") =>
        \A i \in 1..Len(Get(norm).chat_messages) :
            \A j \in 1..Len(Get(norm).chat_messages) :
                i < j => Get(norm).chat_messages[i].id < Get(norm).chat_messages[j].id

\* two messages were converted within the same clock reading
C19_Witness ==
    /\ norm # None
    /\ Len(Get(norm).chat_messages) >= 2
    /\ Get(raw).reads[1] = Get(raw).reads[2]

----------------------------------------------------------------------------
(* Plugin unwrap on its own: one content string and the results of          *)
(* _extract_plugin_wrapped_message applied to it and then to its result     *)

\* the pieces a content string is made of: the two pieces of the prefix, the
\* second piece of the suffix (its first is the quote) and other text
ContentTokens == {plugin_prefix[1], "\"", plugin_suffix_start[2], "x"}

UnwrapInit ==
    /\ EngineInit
    /\ msg_content \in {Some(c) : c \in SeqsUpTo(ContentTokens, MaxContentLen)}
    /\ unwrap_runs = <<>>
    /\ other = None
    /\ call_kwargs = None
    /\ cred = None
    /\ raw = None
    /\ norm = None
    /\ completed = None
    /\ stream_pc = "idle"
    /\ chunks = <<>>

\* one application, to the content or to the result of the last application
ApplyUnwrap ==
    /\ msg_content # None
    /\ Len(unwrap_runs) < 2
    /\ LET arg == IF unwrap_runs = <<>> THEN Get(msg_content)
                  ELSE unwrap_runs[Len(unwrap_runs)].content
       IN unwrap_runs' = Append(unwrap_runs, _extract_plugin_wrapped_message(arg))
    /\ UNCHANGED <<engineVars, other, call_kwargs, cred, raw, norm, msg_content,
                   completed, stream_pc, chunks>>

UnwrapNext == ApplyUnwrap

SpecUnwrap == UnwrapInit /\ [][UnwrapNext]_vars

\* C18: unwrapping the result of an unwrap detects nothing and returns the
\* same string as the first unwrap.
C18_UnwrapIdempotent ==
    Len(unwrap_runs) = 2 =>
        /\ unwrap_runs[2].content = unwrap_runs[1].content
        /\ ~unwrap_runs[2].is_plugin_msg

\* a wrapped message whose extracted text itself begins with the prefix was
\* unwrapped twice
C18_Witness ==
    /\ Len(unwrap_runs) = 2
    /\ unwrap_runs[1].is_plugin_msg
    /\ StartsWith(unwrap_runs[1].content, plugin_prefix)

----------------------------------------------------------------------------
(* Streaming emulation on its own: the completion astreaming awaited and    *)
(* the chunks its generator has yielded                                     *)

\* characters per chunk
CHUNK_SIZE == 50

\* a text of n characters, each standing for its own position
TextOfLen(n) == [i \in 1..n |-> i]

FinishReasons == {"stop", "length", "error"}

\* the ModelResponse of acompletion: text, finish_reason and usage
Completions ==
    {[text |-> TextOfLen(n), finish_reason |-> fr, usage |-> u] :
        n \in 0..MaxTextLen, fr \in FinishReasons,
        u \in {ZeroUsage, _update_usage_data(Some([prompt_tokens |-> 3, completion_tokens |-> 2,
                                                    model |-> "m1", status_code |-> 200]))}}

StreamInit ==
    /\ EngineInit
    /\ completed \in {Some(c) : c \in Completions}
    /\ stream_pc = "idle"
    /\ chunks = <<>>
    /\ call_kwargs = None
    /\ cred = None
    /\ raw = None
    /\ norm = None
    /\ msg_content = None
    /\ unwrap_runs = <<>>
    /\ other = None

ChunkText_short(text, start) ==
    SubSeq(text, start + 1,
           IF start + CHUNK_SIZE - 1 < Len(text) THEN start + CHUNK_SIZE - 1 ELSE Len(text))

\* text[start:start + CHUNK_SIZE]
ChunkText(text, start) ==
    SubSeq(text, start + 1,
           IF start + CHUNK_SIZE < Len(text) THEN start + CHUNK_SIZE ELSE Len(text))

\* acompletion has returned; the generator is about to enter its loop
astreaming ==
    /\ stream_pc = "idle"
    /\ completed # None
    /\ stream_pc' = "streaming"
    /\ UNCHANGED <<engineVars, other, call_kwargs, cred, raw, norm, msg_content, unwrap_runs,
                   completed, chunks>>

InRange_through(start, text) == start <= Len(text)

\* start is an element of range(0, len(text), CHUNK_SIZE), for a multiple start
InRange(start, text) == start < Len(text)

StreamingChunk_reasonalways(text, idx, start, finish_reason, usage) ==
    [text |-> ChunkText(text, start),
     index |-> idx,
     is_finished |-> start + CHUNK_SIZE >= Len(text),
     finish_reason |-> Some(finish_reason),
     usage |-> usage]

\* the GenericStreamingChunk of one iteration
StreamingChunk(text, idx, start, finish_reason, usage) ==
    LET is_final == start + CHUNK_SIZE >= Len(text)
    IN [text |-> ChunkText(text, start),
        index |-> idx,
        is_finished |-> is_final,
        finish_reason |-> IF is_final THEN Some(finish_reason) ELSE None,
        usage |-> usage]

\* one iteration of the loop over range(0, len(text), CHUNK_SIZE)
YieldChunk ==
    /\ stream_pc = "streaming"
    /\ LET c == Get(completed)
           idx == Len(chunks)
           start == idx * CHUNK_SIZE
       IN /\ InRange(start, c.text)
          /\ chunks' = Append(chunks, StreamingChunk(c.text, idx, start, c.finish_reason, c.usage))
    /\ UNCHANGED <<engineVars, other, call_kwargs, cred, raw, norm, msg_content, unwrap_runs,
                   completed, stream_pc>>

\* the range is exhausted and the generator returns
StreamEnd ==
    /\ stream_pc = "streaming"
    /\ ~InRange(Len(chunks) * CHUNK_SIZE, Get(completed).text)
    /\ stream_pc' = "closed"
    /\ UNCHANGED <<engineVars, other, call_kwargs, cred, raw, norm, msg_content, unwrap_runs,
                   completed, chunks>>

StreamNext == astreaming \/ YieldChunk \/ StreamEnd

SpecStream == StreamInit /\ [][StreamNext]_vars

\* the consumer keeps iterating the generator and the event loop keeps
\* running it
SpecStreamFair == SpecStream /\ WF_vars(StreamNext)

\* the texts of the chunks, concatenated in index order
RECURSIVE ConcatTexts(_)
ConcatTexts(cs) ==
    IF cs = <<>> THEN <<>>
    ELSE ConcatTexts(SubSeq(cs, 1, Len(cs) - 1)) \o cs[Len(cs)].text

\* C20: when the stream has ended, the chunk texts concatenated in index
\* order are the completion text; the chunks carry the indexes 0, 1, 2, ...
C20_ChunksReproduceText ==
    stream_pc = "closed" =>
        /\ ConcatTexts(chunks) = Get(completed).text
        /\ \A i \in 1..Len(chunks) : chunks[i].index = i - 1

\* a text longer than two chunks was streamed to its end
C20_Witness ==
    /\ stream_pc = "closed"
    /\ Len(chunks) = 3
    /\ Len(Get(completed).text) = 2 * CHUNK_SIZE + 1

\* the positions of the chunks marked final
FinalChunks == {i \in 1..Len(chunks) : chunks[i].is_finished}

\* C21: the stream of every completion text has exactly one chunk marked
\* final, and it is the last chunk emitted.
C21_ExactlyOneFinalChunk ==
    stream_pc = "closed" => FinalChunks = {Len(chunks)} /\ Len(chunks) >= 1

\* C22: finish_reason is carried by the final chunk only, where it is the
\* finish_reason of the completion; it is null on the other chunks; every
\* chunk carries the usage of the completion.
C22_FinishReasonOnFinalChunkOnly ==
    \A i \in 1..Len(chunks) :
        /\ chunks[i].is_finished <=> (i - 1) * CHUNK_SIZE + CHUNK_SIZE >= Len(Get(completed).text)
        /\ chunks[i].is_finished => chunks[i].finish_reason = Some(Get(completed).finish_reason)
        /\ ~chunks[i].is_finished => chunks[i].finish_reason = None
        /\ chunks[i].usage = Get(completed).usage

\* a stream of three chunks of a completion that ended with "length" and
\* non-zero usage has ended
C22_Witness ==
    /\ stream_pc = "closed"
    /\ Len(chunks) = 3
    /\ Get(completed).finish_reason = "length"
    /\ Get(completed).usage.total_tokens = 5
    /\ chunks[1].finish_reason = None
    /\ chunks[3].finish_reason = Some("length")

\* ceil(n / CHUNK_SIZE)
CeilChunks(n) == (n + CHUNK_SIZE - 1) \div CHUNK_SIZE

\* C28: for a text of length L > 0 the stream is ceil(L / 50) chunks with the
\* indexes 0..n-1 in order, 50 characters in every chunk but the last and 1
\* to 50 in the last, and then the stream terminates.
C28_FiniteOrderedStream ==
    /\ [](completed # None /\ Len(Get(completed).text) > 0 =>
            LET L == Len(Get(completed).text)
            IN /\ Len(chunks) <= CeilChunks(L)
               /\ stream_pc = "closed" => Len(chunks) = CeilChunks(L)
               /\ \A i \in 1..Len(chunks) :
                     /\ chunks[i].index = i - 1
                     /\ i < CeilChunks(L) => Len(chunks[i].text) = CHUNK_SIZE
                     /\ i = CeilChunks(L) =>
                           Len(chunks[i].text) >= 1 /\ Len(chunks[i].text) <= CHUNK_SIZE)
    /\ (stream_pc = "idle" ~> stream_pc = "closed")

\* a text of exactly two full chunks was streamed to its end
C28_Witness ==
    /\ stream_pc = "closed"
    /\ Len(Get(completed).text) = 2 * CHUNK_SIZE
    /\ Len(chunks) = 2
    /\ Len(chunks[2].text) = CHUNK_SIZE

\* C26: a request whose first attempt uses a Cookie credential (the caller's
\* or the default one) issues exactly one HTTP call whatever the answer.
C26_CookieFirstIsSingleCall ==
    branch \in {"custom_cookie", "sys_cookie"} =>
        /\ Len(calls) = 1
        /\ SentCookie(1) /\ ~SentKey(1)
        /\ Len(answers) = 1 => pc = "done"

\* the default Cookie was the first credential, upstream answered 429 with
\* the rate-limit message and the request returned after that one call
C26_Witness ==
    /\ branch = "sys_cookie"
    /\ pc = "done"
    /\ RateLimitAnswer(1)
    /\ Len(calls) = 1

\* what validation makes of a found value
ValidatedValue(v) == IF IsPlaceholderOrBlank(v) THEN None ELSE Some(Strip(v))

\* C27: the first lookup location wins when it holds a non-empty value, which
\* is then validated; the second location is consulted only when the first
\* is absent or empty; a rejected first value is not replaced by the second.
C27_FirstLocationWins ==
    cred # None =>
        LET k == Get(call_kwargs)
            first == k.litellm_params_metadata
        IN Get(cred).user_api_key =
              IF first # None /\ Get(first) # <<>> THEN ValidatedValue(Get(first))
              ELSE IF k.headers # None /\ Get(k.headers) # <<>> THEN ValidatedValue(Get(k.headers))
              ELSE None

\* the first location held the placeholder and the second an accepted value:
\* nothing was resolved
C27_Witness ==
    /\ cred # None
    /\ Get(call_kwargs).litellm_params_metadata = Some(<<"raspberry">>)
    /\ Get(call_kwargs).headers = Some(<<"hdrkey">>)
    /\ Get(cred).user_api_key = None

\* C29: the id of the upstream message at position i is the id of the message
\* at position 0 plus i, whatever the clock readings during the conversion.
C29_IdsFromOneBase ==
    (norm # None /\ Get(norm).raised = "none") =>
        \A i \in 1..Len(Get(norm).chat_messages) :
            Get(norm).chat_messages[i].id = Get(norm).chat_messages[1].id + (i - 1)

\* the HTTP calls of the request that have been issued and not yet answered
InFlight == Len(calls) - Len(answers)

\* what _make_request returned for the i-th answer
ClassifiedAs(i) ==
    _make_request([kind |-> answers[i].kind, status |-> answers[i].status,
                   body |-> answers[i].body, headers |-> NoHeaders]).response

\* C23: within one request, through either entry point, at most one HTTP
\* call is in flight; the Cookie fallback call starts only after the Key call
\* has been answered and classified.
C23_OneCallInFlight ==
    /\ InFlight \in {0, 1}
    /\ InFlight = 1 <=> pc = "http"
    /\ Len(calls) = 2 =>
          /\ Len(answers) >= 1
          /\ SentKey(1) /\ SentCookie(2)
          /\ ClassifiedAs(1) = None

\* through the asynchronous entry point the Key call has been answered and
\* the Cookie fallback call is the one in flight
C23_Witness ==
    /\ entry = "acompletion"
    /\ Len(calls) = 2
    /\ Len(answers) = 1
    /\ pc = "http"

----------------------------------------------------------------------------
(* A streaming call as a whole: astreaming awaits acompletion, whose        *)
(* _call_sai runs on the executor, and then yields the chunks               *)

\* number of characters of a text
RECURSIVE CharLen(_)
CharLen(text) == IF text = <<>> THEN 0 ELSE Len(Head(text)) + CharLen(Tail(text))

\* the text character by character
Characters(text) == TextOfLen(CharLen(text))

\* astreaming calls acompletion with the caller's messages and kwargs
StreamingAcompletion ==
    /\ stream_pc = "idle"
    /\ completed = None
    /\ acompletion
    /\ Len(messages') <= 1

\* upstream answers of the streaming call
StreamingHttp ==
    /\ \/ HttpResponse /\ Get(reply').headers \in {h \in HeaderChoices : h.model # None}
       \/ HttpTimeout
       \/ HttpConnectionError

AcompletionReturns_early ==
    /\ pc \in {"done", "http"}
    /\ Len(answers) >= 1
    /\ completed = None
    /\ LET r == ModelResponse(CallSaiResult(ClassifiedAs(1), None, Get(auth_method_used),
                                            Get(args).chat_messages))
       IN completed' = Some([text |-> Characters(r.text), finish_reason |-> r.finish_reason,
                             usage |-> r.usage])
    /\ UNCHANGED <<engineVars, other, call_kwargs, cred, raw, norm, msg_content, unwrap_runs,
                   stream_pc, chunks>>

\* acompletion returns its ModelResponse to astreaming, which reads text,
\* usage and finish_reason from it
AcompletionReturns ==
    /\ pc = "done"
    /\ result # None
    /\ completed = None
    /\ LET r == Get(result)
       IN completed' = Some([text |-> Characters(r.text), finish_reason |-> r.finish_reason,
                             usage |-> r.usage])
    /\ UNCHANGED <<engineVars, other, call_kwargs, cred, raw, norm, msg_content, unwrap_runs,
                   stream_pc, chunks>>

StreamingNext ==
    \/ StreamingAcompletion
    \/ run_in_executor
    \/ StreamingHttp
    \/ AcompletionReturns
    \/ astreaming
    \/ YieldChunk
    \/ StreamEnd

SpecStreaming == Init /\ [][StreamingNext]_vars

\* C25: in a streaming call no chunk is emitted before every HTTP attempt of
\* the request has completed and the completion text is resolved, and no
\* HTTP call is issued after the first chunk.
C25_ChunksAfterAllAttempts ==
    /\ [](chunks # <<>> =>
            /\ pc = "done"
            /\ InFlight = 0
            /\ result # None
            /\ Get(completed).text = Characters(Get(result).text)
            /\ Get(completed).finish_reason = Get(result).finish_reason)
    /\ [][chunks # <<>> => calls' = calls /\ result' = result]_vars

\* the Key attempt failed, the Cookie fallback was answered, and the stream
\* of the resulting text has emitted its second chunk
C25_Witness ==
    /\ Len(calls) = 2
    /\ Len(answers) = 2
    /\ Len(chunks) = 2

----------------------------------------------------------------------------
(* Two concurrent requests: the engine variables hold the request whose     *)
(* thread is running, other holds the request whose thread is not           *)

\* the locals of a request, as a record
RequestState ==
    [pc |-> pc, entry |-> entry, messages |-> messages, user_api_key |-> user_api_key,
     args |-> args, data |-> data, branch |-> branch, attempt |-> attempt, calls |-> calls,
     answers |-> answers, reply |-> reply, last |-> last,
     auth_method_used |-> auth_method_used, result |-> result, raised |-> raised]

\* a request that has not entered the handler yet
IdleRequest ==
    [pc |-> "idle", entry |-> "none", messages |-> <<>>, user_api_key |-> None,
     args |-> None, data |-> None, branch |-> "none", attempt |-> 0, calls |-> <<>>,
     answers |-> <<>>, reply |-> None, last |-> None,
     auth_method_used |-> None, result |-> None, raised |-> "none"]

PairInit ==
    /\ EngineInit
    /\ other = Some(IdleRequest)
    /\ call_kwargs = None
    /\ cred = None
    /\ raw = None
    /\ norm = None
    /\ msg_content = None
    /\ unwrap_runs = <<>>
    /\ completed = None
    /\ stream_pc = "idle"
    /\ chunks = <<>>

\* the scheduler runs the thread of the other request
Switch ==
    /\ other # None
    /\ LET o == Get(other)
       IN /\ pc' = o.pc
          /\ entry' = o.entry
          /\ messages' = o.messages
          /\ user_api_key' = o.user_api_key
          /\ args' = o.args
          /\ data' = o.data
          /\ branch' = o.branch
          /\ attempt' = o.attempt
          /\ calls' = o.calls
          /\ answers' = o.answers
          /\ reply' = o.reply
          /\ last' = o.last
          /\ auth_method_used' = o.auth_method_used
          /\ result' = o.result
          /\ raised' = o.raised
    /\ other' = Some(RequestState)
    /\ UNCHANGED <<SAI_KEY, SAI_COOKIE, call_kwargs, cred, raw, norm, msg_content,
                   unwrap_runs, completed, stream_pc, chunks>>

\* the requests of the pair: one user message, any metadata
PairCompletion ==
    /\ completion
    /\ Len(messages') = 1 /\ messages'[1].role = "user"

PairAcompletion ==
    /\ acompletion
    /\ Len(messages') = 1 /\ messages'[1].role = "user"

\* upstream answers of the pair: success, rate limit, timeout
PairHttp ==
    \/ /\ HttpResponse
       /\ Get(reply').status \in {200, 429}
       /\ Get(reply').body \in {<<"hi there">>, <<"error: ", "Test template usage limit exceeded">>}
       /\ Get(reply').headers.model # None
    \/ HttpTimeout

PairNext ==
    \/ PairCompletion
    \/ PairAcompletion
    \/ run_in_executor
    \/ PairHttp
    \/ Switch

SpecPair == PairInit /\ [][PairNext]_vars

\* what a request with these inputs does when it runs alone and upstream
\* gives it the answers the running request has received
AloneOutcome ==
    LET a == Get(args)
        d == [inputs |-> [system |-> a.system, user |-> a.user],
              chatMessages |-> IF a.chat_messages # <<>> THEN Some(a.chat_messages) ELSE None]
        auth == _determine_auth_method(user_api_key)
        plan == FirstAttemptPlan(auth.custom_cookie, auth.api_key_to_use, user_api_key)
        first == [headers |-> Get(_setup_request_headers(plan.use_api_key, plan.custom_api_key,
                                                         plan.custom_cookie)),
                  data |-> d]
        fell == FallbackDecision(plan.branch, 1, ClassifiedAs(1)) = "fallback"
        final == _make_request(Get(reply))
    IN [calls |-> IF fell
                  THEN <<first, [headers |-> Get(_setup_request_headers(FALSE, None, None)),
                                 data |-> d]>>
                  ELSE <<first>>,
        result |-> ModelResponse(CallSaiResult(final.response, final.response_headers,
                                               IF fell THEN FallbackAuthMethodUsed
                                               ELSE plan.auth_method_used,
                                               a.chat_messages))]

SameUpstreamAnswers(x, y) ==
    \A i \in 1..(IF Len(x) < Len(y) THEN Len(x) ELSE Len(y)) : x[i] = y[i]

----------------------------------------------------------------------------
(* The payload of a request: completion from the caller's messages to the   *)
(* first http_session.post, for messages with different contents            *)

\* elements with role and content; the contents differ before and after the
\* unwrap
PromptElems == {[isdict |-> TRUE, role |-> Some(r), content |-> Some(c)] :
                   r \in Roles, c \in {<<"hello">>, WrappedHello, <<"bye">>}}

\* non-empty lists of such elements with the clock readings of the conversion
PromptMessages ==
    UNION {{[kind |-> "list", items |-> q, reads |-> r] : r \in ClockReads(Len(q))} :
              q \in SeqsUpTo(PromptElems, MaxMsgs) \ {<<>>}}

PromptInit ==
    /\ EngineInit
    /\ raw \in {Some(x) : x \in PromptMessages}
    /\ norm = None
    /\ call_kwargs = None
    /\ cred = None
    /\ msg_content = None
    /\ unwrap_runs = <<>>
    /\ other = None
    /\ completed = None
    /\ stream_pc = "idle"
    /\ chunks = <<>>

\* completion(messages) without caller metadata, up to the first post
PromptCompletion ==
    /\ pc = "idle"
    /\ raw # None
    /\ LET p == Prepared(ItemsAsMsgs(Get(raw).items),
                         [litellm_params_metadata |-> None, headers |-> None],
                         Get(raw).reads)
       IN /\ entry' = "completion"
          /\ messages' = p.messages
          /\ user_api_key' = p.user_api_key
          /\ args' = Some(p.args)
          /\ CallSai(p.args, p.user_api_key)
    /\ UNCHANGED <<SAI_KEY, SAI_COOKIE, answers, reply>>
    /\ UNCHANGED auxVars

PromptNext == PromptCompletion

SpecPrompt == PromptInit /\ [][PromptNext]_vars

C32_CredentialAlwaysResolved ==
    /\ attempt = Len(calls)
    /\ \A i \in 1..Len(calls) : SentKey(i) \/ SentCookie(i)
    /\ pc \in {"http", "done"} /\ raised = "none" => Len(calls) >= 1

\* no default Key is configured, the caller's key was tried first and the
\* default Cookie carried the fallback
C32_Witness ==
    /\ ~Truthy(SAI_KEY)
    /\ attempt = 2
    /\ Len(calls) = 2
    /\ calls[1].headers.X_Api_Key = Some(<<"userkey">>)
    /\ calls[2].headers.Cookie = SAI_COOKIE

\* C33: when normalization fails with the validation error for an element
\* that lacks role or content, no message content of the caller's list has
\* been replaced by its unwrapped text.
C33_FailedNormalizationLeavesList ==
    (norm # None /\ Get(norm).raised = "ValueError" /\ Get(raw).kind = "list") =>
        Get(norm).messages = Get(raw).items

====
